---- MODULE Spec2Model ----
(***************************************************************************)
(* Model of createProvider (src/createProvider.ts) and of the component    *)
(* trees built from the definitions it returns.  The host framework (Vue)  *)
(* is modelled only as far as the wrapper uses it: prop resolution,        *)
(* instance creation, provide and inject.                                  *)
(***************************************************************************)
EXTENDS Integers, Sequences, FiniteSets, TLC

\* calls: the calls of createProvider made so far, each with its arguments
\*   and the object it returned (module-level constants of the callers)
\* instances: the mounted component instances, in order of creation
\* nextRef: identity of the next object a createProvided call allocates
VARIABLES calls, instances, nextRef

vars == <<calls, instances, nextRef>>

(* ---------------------------------------------------------------------- *)
(* Bounds                                                                 *)
(* ---------------------------------------------------------------------- *)
MaxDefs == 2
MaxInstances == 3

(* ---------------------------------------------------------------------- *)
(* JavaScript values                                                      *)
(* ---------------------------------------------------------------------- *)
Undefined == [type |-> "undefined"]

Num(n) == [type |-> "number", value |-> n]

Str(s) == [type |-> "string", value |-> s]

Symbol(description, id) == [type |-> "symbol", description |-> description, id |-> id]

Error(message) == [type |-> "error", message |-> message]

\* ref(x): a reactive reference holding x
ref(x) == [type |-> "ref", value |-> x]

\* The injection keys callers make before calling createProvider.
Tokens == {Symbol("provided", 1), Symbol("provided", 2)}

(* ---------------------------------------------------------------------- *)
(* Caller-supplied arguments of createProvider                            *)
(* ---------------------------------------------------------------------- *)
DemoProps ==
  [initialCount |-> [type |-> "Number", hasDefault |-> TRUE, default |-> Num(0)],
   initialMessage |-> [type |-> "String", hasDefault |-> TRUE, default |-> Str("hello world")]]

ReadmeProps ==
  [initialCount |-> [type |-> "Number", hasDefault |-> TRUE, default |-> Num(42)]]

\* The (parentProps, createProvided, parentRender) triples callers pass:
\* the demo's, and one whose derivation function rejects an overridden
\* initialCount by throwing.
CallerArgs ==
  {[parentProps |-> DemoProps, createProvided |-> "demo", parentRender |-> "demo"],
   [parentProps |-> ReadmeProps, createProvided |-> "checked", parentRender |-> "readme"]}

\* Values a template binds to a prop; Undefined is an omitted prop.  The
\* templates override initialCount only.
AttrValues(field) ==
  IF field = "initialCount" THEN {Undefined, Num(5)} ELSE {Undefined}

Attrs(options) == {a \in [DOMAIN options -> {Undefined, Num(5)}] :
                     \A f \in DOMAIN options : a[f] \in AttrValues(f)}

(* ---------------------------------------------------------------------- *)
(* The callbacks                                                          *)
(* ---------------------------------------------------------------------- *)
\* createProvided(props, ctx): returns a new object (identity newRef) or throws.
Apply_createProvided(fn, props, ctx, newRef) ==
  CASE fn = "demo" ->
         [threw |-> FALSE,
          value |-> [type |-> "object", ref |-> newRef,
                     count |-> ref(props.initialCount),
                     message |-> ref(props.initialMessage)]]
    [] OTHER ->
         IF props.initialCount = ReadmeProps.initialCount.default
           THEN [threw |-> FALSE,
                 value |-> [type |-> "object", ref |-> newRef,
                            count |-> ref(props.initialCount)]]
           ELSE [threw |-> TRUE, value |-> Error("createProvided failed")]

\* parentRender(provided, props, ctx) returns a render function; the value
\* here is what that render function draws on its first run.
Apply_parentRender(fn, provided, props, ctx) ==
  IF fn = "demo"
    THEN [type |-> "vnode", count |-> provided.count.value, message |-> provided.message.value]
    ELSE [type |-> "vnode", count |-> provided.count.value]

(* ---------------------------------------------------------------------- *)
(* Host framework                                                         *)
(* ---------------------------------------------------------------------- *)
\* Resolved props: the default for a prop whose bound value is undefined.
resolveProps(options, attrs) ==
  [f \in DOMAIN options |->
     IF attrs[f] = Undefined
       THEN IF options[f].hasDefault THEN options[f].default ELSE Undefined
       ELSE attrs[f]]

\* provide(key, value) on the instance that is being set up.
provide(provides, key, value) == (key :> value) @@ provides

\* inject(key) in an instance whose parent is p: the value of the nearest
\* enclosing instance that provided key, undefined when there is none.
RECURSIVE inject(_, _, _)
inject(insts, p, key) ==
  IF p = 0 THEN Undefined
  ELSE IF key \in DOMAIN insts[p].provides THEN insts[p].provides[key]
  ELSE inject(insts, insts[p].parent, key)

Call(fn, args) == [fn |-> fn, args |-> args]

(* ---------------------------------------------------------------------- *)
(* createProvider                                                         *)
(* ---------------------------------------------------------------------- *)
(* setup as it would be with one statement wrong *)

\* setup providing a copy of the object: provide(injectionKey, { ...provided })
setup_copy(self, props, ctx, newRef) ==
  LET r == Apply_createProvided(self.createProvided, props, ctx, newRef) IN
  IF r.threw
    THEN [trace |-> <<Call("createProvided", <<props, ctx>>)>>,
          provides |-> <<>>,
          derived |-> Undefined,
          thrown |-> r.value,
          render |-> Undefined]
    ELSE LET provided == r.value IN
         [trace |-> <<Call("createProvided", <<props, ctx>>),
                      Call("provide", <<self.injectionKey, [provided EXCEPT !.ref = 0 - newRef]>>),
                      Call("parentRender", <<provided, props, ctx>>)>>,
          provides |-> provide(<<>>, self.injectionKey, [provided EXCEPT !.ref = 0 - newRef]),
          derived |-> r.value,
          thrown |-> Undefined,
          render |-> Apply_parentRender(self.parentRender, provided, props, ctx)]

\* setup providing under the description of the key: every symbol of that description
setup_descriptionKey(self, props, ctx, newRef) ==
  LET r == Apply_createProvided(self.createProvided, props, ctx, newRef) IN
  IF r.threw
    THEN [trace |-> <<Call("createProvided", <<props, ctx>>)>>,
          provides |-> <<>>,
          derived |-> Undefined,
          thrown |-> r.value,
          render |-> Undefined]
    ELSE LET provided == r.value IN
         [trace |-> <<Call("createProvided", <<props, ctx>>),
                      Call("provide", <<self.injectionKey, provided>>),
                      Call("parentRender", <<provided, props, ctx>>)>>,
          provides |-> [k \in {t \in Tokens : t.description = self.injectionKey.description} |-> provided],
          derived |-> r.value,
          thrown |-> Undefined,
          render |-> Apply_parentRender(self.parentRender, provided, props, ctx)]

\* setup calling parentRender before provide
setup_renderFirst(self, props, ctx, newRef) ==
  LET r == Apply_createProvided(self.createProvided, props, ctx, newRef) IN
  IF r.threw
    THEN [trace |-> <<Call("createProvided", <<props, ctx>>)>>,
          provides |-> <<>>,
          derived |-> Undefined,
          thrown |-> r.value,
          render |-> Undefined]
    ELSE LET provided == r.value IN
         [trace |-> <<Call("createProvided", <<props, ctx>>),
                      Call("parentRender", <<provided, props, ctx>>),
                      Call("provide", <<self.injectionKey, provided>>)>>,
          provides |-> provide(<<>>, self.injectionKey, provided),
          derived |-> r.value,
          thrown |-> Undefined,
          render |-> Apply_parentRender(self.parentRender, provided, props, ctx)]

\* setup catching the failure of createProvided and providing undefined
setup_swallow(self, props, ctx, newRef) ==
  LET r == Apply_createProvided(self.createProvided, props, ctx, newRef) IN
  IF r.threw
    THEN [trace |-> <<Call("createProvided", <<props, ctx>>),
                      Call("provide", <<self.injectionKey, Undefined>>)>>,
          provides |-> provide(<<>>, self.injectionKey, Undefined),
          derived |-> Undefined,
          thrown |-> Undefined,
          render |-> Undefined]
    ELSE LET provided == r.value IN
         [trace |-> <<Call("createProvided", <<props, ctx>>),
                      Call("provide", <<self.injectionKey, provided>>),
                      Call("parentRender", <<provided, props, ctx>>)>>,
          provides |-> provide(<<>>, self.injectionKey, provided),
          derived |-> r.value,
          thrown |-> Undefined,
          render |-> Apply_parentRender(self.parentRender, provided, props, ctx)]

\* setup reusing the object of the first instantiation instead of a new one
setup_cached(self, props, ctx, newRef) ==
  LET r == Apply_createProvided(self.createProvided, props, ctx, 1) IN
  IF r.threw
    THEN [trace |-> <<Call("createProvided", <<props, ctx>>)>>,
          provides |-> <<>>,
          derived |-> Undefined,
          thrown |-> r.value,
          render |-> Undefined]
    ELSE LET provided == r.value IN
         [trace |-> <<Call("createProvided", <<props, ctx>>),
                      Call("provide", <<self.injectionKey, provided>>),
                      Call("parentRender", <<provided, props, ctx>>)>>,
          provides |-> provide(<<>>, self.injectionKey, provided),
          derived |-> r.value,
          thrown |-> Undefined,
          render |-> Apply_parentRender(self.parentRender, provided, props, ctx)]

\* setup deriving a second object for parentRender: parentRender(createProvided(props, ctx), props, ctx)
setup_rederive(self, props, ctx, newRef) ==
  LET r == Apply_createProvided(self.createProvided, props, ctx, newRef) IN
  IF r.threw
    THEN [trace |-> <<Call("createProvided", <<props, ctx>>)>>,
          provides |-> <<>>,
          derived |-> Undefined,
          thrown |-> r.value,
          render |-> Undefined]
    ELSE LET provided == r.value IN
         [trace |-> <<Call("createProvided", <<props, ctx>>),
                      Call("provide", <<self.injectionKey, provided>>),
                      Call("createProvided", <<props, ctx>>),
                      Call("parentRender", <<[provided EXCEPT !.ref = 0 - newRef], props, ctx>>)>>,
          provides |-> provide(<<>>, self.injectionKey, provided),
          derived |-> r.value,
          thrown |-> Undefined,
          render |-> Apply_parentRender(self.parentRender, [provided EXCEPT !.ref = 0 - newRef], props, ctx)]

\* The setup function of the component createProvider defines.  self holds
\* the variables the closure captures.
setup(self, props, ctx, newRef) ==
  LET r == Apply_createProvided(self.createProvided, props, ctx, newRef) IN
  IF r.threw
    THEN [trace |-> <<Call("createProvided", <<props, ctx>>)>>,
          provides |-> <<>>,
          derived |-> Undefined,
          thrown |-> r.value,
          render |-> Undefined]
    ELSE LET provided == r.value IN
         [trace |-> <<Call("createProvided", <<props, ctx>>),
                      Call("provide", <<self.injectionKey, provided>>),
                      Call("parentRender", <<provided, props, ctx>>)>>,
          provides |-> provide(<<>>, self.injectionKey, provided),
          derived |-> r.value,
          thrown |-> Undefined,
          render |-> Apply_parentRender(self.parentRender, provided, props, ctx)]

(* createProvider as it would be with one statement wrong *)

\* createProvider making a key of its own: Symbol(description)
createProvider_freshKey(injectionKey, parentProps, createProvided, parentRender) ==
  [injectionKey |-> Symbol(injectionKey.description, 0),
   component |-> [props |-> parentProps,
                  setup |-> [injectionKey |-> Symbol(injectionKey.description, 0),
                             createProvided |-> createProvided,
                             parentRender |-> parentRender]]]

\* createProvider whose component provides under one key shared by every call
createProvider_sharedKey(injectionKey, parentProps, createProvided, parentRender) ==
  [injectionKey |-> injectionKey,
   component |-> [props |-> parentProps,
                  setup |-> [injectionKey |-> Symbol("provided", 1),
                             createProvided |-> createProvided,
                             parentRender |-> parentRender]]]

\* createProvider declaring the props by name only: props: Object.keys(parentProps)
createProvider_propNames(injectionKey, parentProps, createProvided, parentRender) ==
  [injectionKey |-> injectionKey,
   component |-> [props |-> [f \in DOMAIN parentProps |->
                               [type |-> "null", hasDefault |-> FALSE, default |-> Undefined]],
                  setup |-> [injectionKey |-> injectionKey,
                             createProvided |-> createProvided,
                             parentRender |-> parentRender]]]

createProvider(injectionKey, parentProps, createProvided, parentRender) ==
  [injectionKey |-> injectionKey,
   component |-> [props |-> parentProps,
                  setup |-> [injectionKey |-> injectionKey,
                             createProvided |-> createProvided,
                             parentRender |-> parentRender]]]

\* The Child component of the demo, for the injection key it was written for.
Child(injectionKey) == [props |-> <<>>, setup |-> [injectionKey |-> injectionKey]]

Child_setup(self, insts, parent) ==
  LET got == inject(insts, parent, self.injectionKey) IN
  [trace |-> <<Call("inject", <<self.injectionKey>>)>>,
   injected |-> got,
   thrown |-> IF got = Undefined THEN Error("TypeError") ELSE Undefined,
   render |-> IF got = Undefined THEN Undefined
              ELSE IF "message" \in DOMAIN got
                THEN [type |-> "vnode", value |-> got.message.value]
                ELSE Error("TypeError")]

(* ---------------------------------------------------------------------- *)
(* State machine                                                          *)
(* ---------------------------------------------------------------------- *)
Init ==
  /\ calls = {}
  /\ instances = <<>>
  /\ nextRef = 1

\* A call of createProvider that runs createProvided once, ahead of any instance
CallCreateProvider_eager(injectionKey, a) ==
  /\ Cardinality(calls) < MaxDefs
  /\ calls' = calls \cup
       {[args |-> <<injectionKey, a.parentProps, a.createProvided, a.parentRender>>,
         returned |-> createProvider(injectionKey, a.parentProps, a.createProvided, a.parentRender)]}
  /\ nextRef' = nextRef + 1
  /\ UNCHANGED instances

\* A module calls createProvider.
CallCreateProvider(injectionKey, a) ==
  /\ Cardinality(calls) < MaxDefs
  /\ calls' = calls \cup
       {[args |-> <<injectionKey, a.parentProps, a.createProvided, a.parentRender>>,
         returned |-> createProvider(injectionKey, a.parentProps, a.createProvided, a.parentRender)]}
  /\ UNCHANGED <<instances, nextRef>>

\* Instances under which a template may place further components: the
\* application root (0) and every parent that rendered its default slot.
Slots == {0} \cup {i \in 1..Len(instances) :
                     instances[i].kind = "Parent" /\ instances[i].thrown = Undefined}

\* The host framework instantiates a component returned by createProvider.
MountParent(parent, component, attrs) ==
  /\ Len(instances) < MaxInstances
  /\ LET id == Len(instances) + 1
         props == resolveProps(component.props, attrs)
         ctx == [type |-> "context", instance |-> id]
         s == setup(component.setup, props, ctx, nextRef)
     IN /\ instances' = Append(instances,
              [kind |-> "Parent", parent |-> parent, component |-> component,
               attrs |-> attrs, props |-> props, ctx |-> ctx,
               trace |-> s.trace, provides |-> s.provides, derived |-> s.derived,
               injected |-> Undefined, thrown |-> s.thrown, render |-> s.render])
        /\ nextRef' = IF s.thrown = Undefined THEN nextRef + 1 ELSE nextRef
  /\ UNCHANGED calls

\* The host framework instantiates a Child.
MountChild(parent, injectionKey) ==
  /\ Len(instances) < MaxInstances
  /\ LET component == Child(injectionKey)
         id == Len(instances) + 1
         ctx == [type |-> "context", instance |-> id]
         s == Child_setup(component.setup, instances, parent)
     IN instances' = Append(instances,
              [kind |-> "Child", parent |-> parent, component |-> component,
               attrs |-> <<>>, props |-> <<>>, ctx |-> ctx,
               trace |-> s.trace, provides |-> <<>>, derived |-> Undefined,
               injected |-> s.injected, thrown |-> s.thrown, render |-> s.render])
  /\ UNCHANGED <<calls, nextRef>>

Next ==
  \/ \E k \in Tokens, a \in CallerArgs : CallCreateProvider(k, a)
  \/ \E p \in Slots, c \in calls :
       \E attrs \in Attrs(c.returned.component.props) :
         MountParent(p, c.returned.component, attrs)
  \/ \E p \in Slots, k \in Tokens : MountChild(p, k)

Spec == Init /\ [][Next]_vars

(* ---------------------------------------------------------------------- *)
(* Vocabulary of the properties                                           *)
(* ---------------------------------------------------------------------- *)
Parents == {i \in 1..Len(instances) : instances[i].kind = "Parent"}

Children == {i \in 1..Len(instances) : instances[i].kind = "Child"}

RECURSIVE Ancestors(_)
Ancestors(i) ==
  IF instances[i].parent = 0 THEN {}
  ELSE {instances[i].parent} \cup Ancestors(instances[i].parent)

\* The calls of createProvider whose component instance i instantiates.
DefsOf(i) == {c \in calls : c.returned.component = instances[i].component}

\* The token createProvider was called with for the component of a Parent;
\* the token a Child retrieves under.
KeyOf(i) ==
  IF instances[i].kind = "Child"
    THEN instances[i].component.setup.injectionKey
    ELSE CHOOSE k \in {c.args[1] : c \in DefsOf(i)} : TRUE

\* The instances of a provider of key that enclose instance i.
ProvidersAbove(i, key) == {p \in Ancestors(i) \cap Parents : KeyOf(p) = key}

\* p encloses i with no other provider of the same token in between.
IsNearestProvider(p, i) ==
  /\ p \in ProvidersAbove(i, KeyOf(i))
  /\ \A q \in ProvidersAbove(i, KeyOf(i)) : q = p \/ q \in Ancestors(p)

TraceFns(i) == [n \in 1..Len(instances[i].trace) |-> instances[i].trace[n].fn]

CallsOf(i, fn) == {n \in 1..Len(instances[i].trace) : instances[i].trace[n].fn = fn}

(* ---------------------------------------------------------------------- *)
(* Properties                                                             *)
(* ---------------------------------------------------------------------- *)

\* C1: a Child below a Parent instance p, with no other provider of the
\* same token between them, retrieves exactly the object createProvided
\* returned for p, and not the object of any other instance.
C1_RoundTrip ==
  \A c \in Children : \A p \in Parents :
    IsNearestProvider(p, c) =>
      /\ instances[p].derived # Undefined
      /\ instances[c].injected = instances[p].derived
      /\ \A q \in Parents \ {p} : instances[c].injected # instances[q].derived

C1_Witness ==
  \E c \in Children : \E p \in Parents :
    /\ IsNearestProvider(p, c)
    /\ instances[c].parent # p
    /\ instances[c].injected = instances[p].derived
    /\ instances[c].injected.type = "object"

\* C2: a Child with no instance of a provider of its token among its
\* ancestors retrieves undefined, and no Child ever retrieves the object of
\* a Parent instance that is not one of its ancestors.
C2_AbsentOutsideSubtree ==
  \A c \in Children :
    /\ ProvidersAbove(c, KeyOf(c)) = {} => instances[c].injected = Undefined
    /\ \A q \in Parents \ Ancestors(c) :
         instances[q].derived # Undefined => instances[c].injected # instances[q].derived

C2_Witness ==
  \E c \in Children : \E q \in Parents \ Ancestors(c) :
    /\ KeyOf(q) = KeyOf(c)
    /\ instances[q].derived # Undefined
    /\ instances[c].parent # 0
    /\ instances[c].injected = Undefined

\* C3: below instances of the provider of token B only, retrieval under a
\* different token A yields undefined and retrieval under B yields the
\* object of the nearest B instance; a Child never retrieves the object of
\* a Parent instance built for another token.
C3_TokenIsolation ==
  \A c \in Children :
    /\ \A q \in Parents :
         (KeyOf(q) # KeyOf(c) /\ instances[q].derived # Undefined)
            => instances[c].injected # instances[q].derived
    /\ \A B \in Tokens :
         (Ancestors(c) # {} /\ \A p \in Ancestors(c) : KeyOf(p) = B) =>
            IF KeyOf(c) = B
              THEN \E p \in Ancestors(c) :
                     /\ IsNearestProvider(p, c)
                     /\ instances[c].injected = instances[p].derived
              ELSE instances[c].injected = Undefined

C3_Witness ==
  /\ \E d, e \in calls :
       /\ d.returned.injectionKey # e.returned.injectionKey
       /\ d.args[3] # e.args[3]
  /\ \E c \in Children : \E p \in Ancestors(c) :
       /\ KeyOf(p) # KeyOf(c)
       /\ Ancestors(c) = {p}
       /\ instances[c].injected = Undefined
  /\ \E c \in Children : \E p \in Ancestors(c) :
       /\ KeyOf(p) = KeyOf(c)
       /\ instances[c].injected = instances[p].derived

C5_CallHasNoEffect ==
  [][calls' # calls => (instances' = instances /\ nextRef' = nextRef)]_vars

C5_Witness ==
  /\ Cardinality(calls) >= 2
  /\ instances = <<>>
  /\ nextRef = 1

\* C6 as stated: every instantiation calls createProvided, provide and
\* parentRender, once each and in this order.
C6_AllThreeAlways ==
  \A i \in Parents : TraceFns(i) = <<"createProvided", "provide", "parentRender">>

\* C6 amended: every instantiation calls createProvided exactly once, first,
\* with the resolved props and the context of the instance; when that call
\* returns, provide and then parentRender follow, once each; provide never
\* precedes createProvided and parentRender never precedes provide.
C6_DeriveRegisterRender ==
  \A i \in Parents :
    /\ Len(instances[i].trace) >= 1
    /\ instances[i].trace[1] = Call("createProvided", <<instances[i].props, instances[i].ctx>>)
    /\ Cardinality(CallsOf(i, "createProvided")) = 1
    /\ instances[i].derived # Undefined =>
         TraceFns(i) = <<"createProvided", "provide", "parentRender">>
    /\ \A n \in CallsOf(i, "provide") : \E m \in CallsOf(i, "createProvided") : m < n
    /\ \A n \in CallsOf(i, "parentRender") : \E m \in CallsOf(i, "provide") : m < n

C6_Witness ==
  \E i, j \in Parents :
    /\ instances[i].derived # Undefined
    /\ Len(instances[i].trace) = 3
    /\ instances[j].derived = Undefined
    /\ Len(instances[j].trace) = 1

\* C7: when createProvided throws, setup throws the same error, nothing is
\* provided, parentRender is not called and createProvided is not called
\* again.
C7_FailurePropagates ==
  \A i \in Parents : \A n \in CallsOf(i, "createProvided") :
    LET args == instances[i].trace[n].args
        r == Apply_createProvided(instances[i].component.setup.createProvided,
                                  args[1], args[2], 0)
    IN r.threw =>
         /\ instances[i].thrown = r.value
         /\ DOMAIN instances[i].provides = {}
         /\ CallsOf(i, "provide") = {}
         /\ CallsOf(i, "parentRender") = {}
         /\ CallsOf(i, "createProvided") = {n}
         /\ instances[i].render = Undefined

C7_Witness ==
  \E i \in Parents :
    /\ instances[i].component.setup.createProvided = "checked"
    /\ instances[i].attrs.initialCount = Num(5)
    /\ instances[i].thrown = Error("createProvided failed")
    /\ Len(instances[i].trace) = 1

\* C8: createProvided and parentRender receive, for every field of the
\* parentProps given to createProvider, the default when the field is
\* omitted and the bound value when it is supplied; with the demo's
\* default of 0 an instance without overrides renders 0 and an instance
\* with initialCount 5 renders 5.
C8_DefaultsAndOverrides ==
  \A i \in Parents : \A d \in DefsOf(i) :
    /\ \A n \in CallsOf(i, "createProvided") \cup CallsOf(i, "parentRender") :
         LET received == IF instances[i].trace[n].fn = "createProvided"
                           THEN instances[i].trace[n].args[1]
                           ELSE instances[i].trace[n].args[2]
         IN /\ DOMAIN received = DOMAIN d.args[2]
            /\ \A f \in DOMAIN d.args[2] :
                 received[f] = IF instances[i].attrs[f] = Undefined
                                 THEN d.args[2][f].default
                                 ELSE instances[i].attrs[f]
    /\ (d.args[2] = DemoProps /\ d.args[3] = "demo") =>
         /\ instances[i].attrs.initialCount = Undefined => instances[i].render.count = Num(0)
         /\ instances[i].attrs.initialCount = Num(5) => instances[i].render.count = Num(5)

C8_Witness ==
  \E i, j \in Parents :
    /\ instances[i].component.props = DemoProps
    /\ instances[j].component.props = DemoProps
    /\ instances[i].attrs.initialCount = Undefined
    /\ instances[i].render.count = Num(0)
    /\ instances[j].attrs.initialCount = Num(5)
    /\ instances[j].attrs.initialMessage = Undefined
    /\ instances[j].trace[1].args[1] =
         [initialCount |-> Num(5), initialMessage |-> Str("hello world")]
    /\ instances[j].render.count = Num(5)

\* C9: every instantiation calls createProvided itself and gets an object
\* of its own; a Child retrieves the object of the instance it is below,
\* never the object made for another instance of the same definition.
C9_BundlePerInstance ==
  /\ \A i \in Parents : \A j \in Parents \ {i} :
       instances[i].derived # Undefined => instances[i].derived # instances[j].derived
  /\ \A i \in Parents :
       \E n \in CallsOf(i, "createProvided") : instances[i].trace[n].args[2] = instances[i].ctx
  /\ \A c \in Children : \A p \in Parents :
       IsNearestProvider(p, c) =>
         \A q \in Parents \ {p} :
           instances[q].component = instances[p].component =>
             /\ instances[c].injected = instances[p].derived
             /\ instances[c].injected # instances[q].derived

C9_Witness ==
  \E p, q \in Parents : \E c \in Children :
    /\ p # q
    /\ instances[p].component = instances[q].component
    /\ instances[p].attrs = instances[q].attrs
    /\ instances[q].derived # Undefined
    /\ IsNearestProvider(p, c)
    /\ instances[c].injected = instances[p].derived

\* C10: in one instantiation, parentRender receives the object that
\* createProvided returned and that was provided under the token, and the
\* props and context that createProvided received; a Child below the
\* instance retrieves the object the instance renders from.
C10_SameBundleAndInputs ==
  /\ \A i \in Parents : \A n \in CallsOf(i, "parentRender") :
       /\ instances[i].trace[n].args[1] = instances[i].derived
       /\ KeyOf(i) \in DOMAIN instances[i].provides
       /\ instances[i].trace[n].args[1] = instances[i].provides[KeyOf(i)]
       /\ \A m \in CallsOf(i, "provide") :
            instances[i].trace[m].args = <<KeyOf(i), instances[i].trace[n].args[1]>>
       /\ \A m \in CallsOf(i, "createProvided") :
            /\ instances[i].trace[n].args[2] = instances[i].trace[m].args[1]
            /\ instances[i].trace[n].args[3] = instances[i].trace[m].args[2]
  /\ \A c \in Children : \A p \in Parents :
       IsNearestProvider(p, c) =>
         \A n \in CallsOf(p, "parentRender") :
           instances[c].injected = instances[p].trace[n].args[1]

C10_Witness ==
  \E c \in Children : \E p \in Parents :
    /\ IsNearestProvider(p, c)
    /\ CallsOf(p, "parentRender") # {}
    /\ instances[c].injected = instances[p].trace[3].args[1]

====
